---- MODULE Spec2Model ----
(***************************************************************************)
(* Model of pdf_monitor.py: a scheduled job that fetches one page, extracts *)
(* the PDF links, diffs them against the persisted state file, sends a push *)
(* notification for the new ones and overwrites the state file.             *)
(*                                                                          *)
(* URLs are modelled by the naturals 1..NumLinks, ordered as Python orders  *)
(* the URL strings.  A run of main() is a sequence of steps tracked by pc.  *)
(***************************************************************************)
EXTENDS Naturals, Sequences, FiniteSets

\* ---------------------------------------------------------------- bounds
NumLinks == 3
MaxRuns == 2

Links == 1..NumLinks

\* ---------------------------------------------------------------- inputs
\* An href of the page: the absolute URL it resolves to, whether the
\* stripped, lower-cased href ends with ".pdf", and whether urljoin can
\* resolve it (it raises ValueError on an href such as "http://[bad/b.pdf").
NonPdfUrl == 0
HrefUniverse == {[url |-> l, pdf |-> TRUE, resolves |-> TRUE] : l \in Links}
                  \cup [url : {NonPdfUrl}, pdf : BOOLEAN, resolves : {FALSE}]
                  \cup {[url |-> NonPdfUrl, pdf |-> FALSE, resolves |-> TRUE]}

\* What requests.get produces: a connection error (no response), or a
\* response with a status and a body whose anchors carry hrefs (for an
\* error status: a body without anchors, or one with all of them).
Responses == {[status |-> "conn_error", hrefs |-> {}]}
               \cup [status : {"http_error"}, hrefs : {{}, HrefUniverse}]
               \cup [status : {"ok"}, hrefs : SUBSET HrefUniverse]

\* Value of an environment secret: unset (None), empty string, or a key.
CredValues == {"none", "empty", "set"}
Truthy(v) == v = "set"

\* What requests.post produces inside send_push.
PostResults == {"200", "500", "exception"}

\* The process's standard output.  print raises UnicodeEncodeError on a
\* character the encoding lacks, and OSError on every write when the stream
\* is unbuffered and its device refuses writes ("broken").
Encodings == {"utf-8", "cp1252", "ascii", "broken"}

\* A printed text, by the smallest encoding that has all its characters:
\* 1 ASCII only, 2 within cp1252 (U+2013, umlauts), 3 beyond cp1252.
TextLevels == 1..3

CanPrint(enc, lvl) ==
    lvl <= (IF enc = "utf-8" THEN 3
            ELSE IF enc = "cp1252" THEN 2
            ELSE IF enc = "ascii" THEN 1
            ELSE 0)

\* What the filesystem does to open(STATE_PATH, "w"): it succeeds, or fails
\* with OSError (permission denied, read-only filesystem).
OpenResults == {"ok", "oserror"}

\* What the filesystem does to the writes of json.dump: all succeed, the
\* first is refused, or one is refused after part of the array is on disk.
WriteResults == {"ok", "oserror", "partial"}

\* First line of the notification message ("Neue PDFs entdeckt:").
Header == 0

\* ---------------------------------------------------------------- helpers
Min(S) == CHOOSE x \in S : \A y \in S : x <= y

RECURSIVE sorted(_)
sorted(S) == IF S = {} THEN <<>> ELSE <<Min(S)>> \o sorted(S \ {Min(S)})

SeqToSet(s) == {s[i] : i \in 1..Len(s)}

\* The state file: absent, or a file whose content is one of
\*   "empty"     zero bytes (just truncated by open(..., "w"))
\*   "malformed" bytes that are not JSON
\*   "null"      a falsy non-list JSON value
\*   "number"    a truthy JSON value that is not iterable
\*   "object"    a JSON object; data lists its keys (none, one or all links)
\*   "list"      a JSON array; data lists its items
\* or STATE_PATH is not a regular file:
\*   "directory" STATE_PATH is a directory
\*   "no_parent" the parent of STATE_PATH is a regular file
AbsentFile == [kind |-> "absent", data |-> <<>>]
EmptyFile == [kind |-> "empty", data |-> <<>>]
PartialFile == [kind |-> "malformed", data |-> <<>>]
ListFile(s) == [kind |-> "list", data |-> s]
InitFiles == {AbsentFile, EmptyFile}
               \cup [kind : {"malformed", "null", "number", "directory", "no_parent"},
                     data : {<<>>}]
               \cup {[kind |-> "object", data |-> sorted(S)] : S \in {{}, {1}, Links}}
               \cup {ListFile(sorted(S)) : S \in SUBSET Links}

\* ---------------------------------------------------------------- functions
\* requests.get raises on a connection error and raise_for_status on an
\* error status; urljoin is called on the hrefs that end with ".pdf" only,
\* and its ValueError ends the loop and the function.
find_pdf_links(r) ==
    IF r.status # "ok"
    THEN [raised |-> TRUE, error |-> r.status, links |-> {}]
    ELSE IF \E h \in r.hrefs : h.pdf /\ ~h.resolves
         THEN [raised |-> TRUE, error |-> "url_error", links |-> {}]
    ELSE [raised |-> FALSE, error |-> "none",
          links |-> {h.url : h \in {x \in r.hrefs : x.pdf}}]

\* os.path.exists is false for a missing file and for a path below a regular
\* file; open() of a directory and json.load of bad bytes raise inside the
\* try, as does set() of a number.  The handler prints the warning with the
\* exception's text: ASCII for the JSON and type errors, and of level lvl for
\* the OSError, whose text holds STATE_PATH.  A print that fails raises out
\* of the handler, after the start of the warning when only the text could
\* not be encoded.
load_old_links(f, enc, lvl) ==
    IF f.kind \in {"absent", "no_parent"}
    THEN [raised |-> FALSE, warned |-> FALSE, links |-> {}]
    ELSE IF f.kind \in {"empty", "malformed", "number"}
         THEN IF CanPrint(enc, 1)
              THEN [raised |-> FALSE, warned |-> TRUE, links |-> {}]
              ELSE [raised |-> TRUE, warned |-> FALSE, links |-> {}]
    ELSE IF f.kind = "directory"
         THEN IF CanPrint(enc, lvl)
              THEN [raised |-> FALSE, warned |-> TRUE, links |-> {}]
              ELSE [raised |-> TRUE, warned |-> enc # "broken", links |-> {}]
    ELSE IF f.kind \in {"list", "object"}
         THEN [raised |-> FALSE, warned |-> FALSE, links |-> SeqToSet(f.data)]
    ELSE [raised |-> FALSE, warned |-> FALSE, links |-> {}]

\* save_links up to open(STATE_PATH, "w"): os.makedirs raises when the parent
\* is a regular file, open raises on a directory or when the filesystem
\* refuses the write; otherwise the file is truncated.
save_open(f, io) ==
    IF f.kind \in {"no_parent", "directory"} \/ io = "oserror"
    THEN [raised |-> TRUE, file |-> f]
    ELSE [raised |-> FALSE, file |-> EmptyFile]

\* json.dump(sorted(links), f): the array written to the state file.
dump(links) == sorted(links)

\* save_links from json.dump to the close of the file, on the file f as the
\* writes so far have left it: a refused write leaves f behind, or a longer
\* cut-off array.
save_dump(links, f, io) ==
    IF io = "oserror" THEN [raised |-> TRUE, file |-> f]
    ELSE IF io = "partial" THEN [raised |-> TRUE, file |-> PartialFile]
    ELSE [raised |-> FALSE, file |-> ListFile(dump(links))]

new_links_symdiff(cur, prev) == (cur \ prev) \cup (prev \ cur)

new_links(cur, prev) == cur \ prev

Reverse(s) == [i \in 1..Len(s) |-> s[Len(s) + 1 - i]]

build_msg_reversed(n) == <<Header>> \o Reverse(sorted(n))

\* "Neue PDFs entdeckt:\n" + "\n".join(sorted(new)), as a sequence of lines
build_msg(n) == <<Header>> \o sorted(n)

is_empty_never(cur) == FALSE

is_empty(cur) == cur = {}

\* lvl is the level of the text the POST came back with: resp.text, or the
\* text of the exception.  The message printed when a key is missing holds
\* U+2013 (level 2) and is printed outside the try.  The prints of lines 81
\* and 83 are inside the try: when one fails, the handler prints the ASCII
\* text of that failure.  The handler's own print (line 85) is outside any
\* try.
send_push(user, token, post, enc, lvl) ==
    IF ~(Truthy(user) /\ Truthy(token))
    THEN IF CanPrint(enc, 2)
         THEN [raised |-> FALSE, posts |-> 0, status |-> "skipped"]
         ELSE [raised |-> TRUE, posts |-> 0, status |-> "none"]
    ELSE IF post = "200"
         THEN IF CanPrint(enc, 1)
              THEN [raised |-> FALSE, posts |-> 1, status |-> "sent"]
              ELSE [raised |-> TRUE, posts |-> 1, status |-> "none"]
    ELSE IF post = "500"
         THEN IF CanPrint(enc, lvl)
              THEN [raised |-> FALSE, posts |-> 1, status |-> "error"]
              ELSE IF CanPrint(enc, 1)
                   THEN [raised |-> FALSE, posts |-> 1, status |-> "exception"]
                   ELSE [raised |-> TRUE, posts |-> 1, status |-> "none"]
    ELSE IF CanPrint(enc, lvl)
         THEN [raised |-> FALSE, posts |-> 1, status |-> "exception"]
         ELSE [raised |-> TRUE, posts |-> 1,
               status |-> IF enc = "broken" THEN "none" ELSE "exception"]

\* ---------------------------------------------------------------- state
VARIABLES
    file,         \* what is at STATE_PATH
    pc,           \* position of the current run in main()
    runs,         \* number of runs started
    keys,         \* send_push of this run found both Pushover keys set
    stdout,       \* standard output of the current process
    resp,         \* send_push: what requests.post gave, until it is printed
    current,      \* main: current
    old,          \* main: old
    new,          \* main: new
    msg,          \* main: msg, as a sequence of lines
    push,         \* what send_push did in this run
    warned,       \* load_old_links printed its warning in this run
    outcome,      \* how this run ended
    trace,        \* functions main has called in this run, in order
    saved,        \* history: save_links has returned in this run
    fileAtStart,  \* history: the state file when this run started
    fetched,      \* history: how the fetch of this run ended
    armed         \* history: links notified and on every non-empty page since

vars == <<file, pc, runs, keys, stdout, resp, current, old, new, msg,
          push, warned, outcome, trace, saved, fileAtStart, fetched, armed>>

NoPush == [status |-> "none", posts |-> 0]

\* Ways a run ends by an exception that main does not catch: raised by one
\* of main's own prints, or out of a function main calls outside a try.
Uncaught == {"raised:print", "raised:load_old_links", "raised:send_push",
             "raised:save_links"}

Init ==
    /\ file \in InitFiles
    /\ pc = "idle"
    /\ runs = 0
    /\ keys = FALSE
    /\ stdout = "utf-8"
    /\ resp = "none"
    /\ current = {}
    /\ old = {}
    /\ new = {}
    /\ msg = <<>>
    /\ push = NoPush
    /\ warned = FALSE
    /\ outcome = "none"
    /\ trace = <<>>
    /\ saved = FALSE
    /\ fileAtStart = file
    /\ fetched = "none"
    /\ armed = {}

\* The scheduler starts a new process and main() is entered.  The process's
\* environment is fixed from here on: its stdout, and the two keys, which
\* are drawn in MainNotify, the only step of the run that reads them.
StartRun ==
    /\ pc \in {"idle", "done"}
    /\ runs < MaxRuns
    /\ runs' = runs + 1
    /\ keys' = FALSE
    /\ stdout' \in Encodings
    /\ resp' = "none"
    /\ pc' = "fetch"
    /\ current' = {}
    /\ old' = {}
    /\ new' = {}
    /\ msg' = <<>>
    /\ push' = NoPush
    /\ warned' = FALSE
    /\ outcome' = "none"
    /\ trace' = <<>>
    /\ saved' = FALSE
    /\ fileAtStart' = file
    /\ fetched' = "none"
    /\ UNCHANGED <<file, armed>>

\* Variant of MainFetch that retries a failed fetch once.
MainFetchRetry ==
    /\ pc = "fetch"
    /\ \E r \in Responses :
         LET res == find_pdf_links(r) IN
           /\ trace' = Append(trace, "find_pdf_links")
           /\ fetched' = IF res.raised THEN res.error ELSE "ok"
           /\ IF res.raised
              THEN /\ IF Len(trace) = 0
                      THEN pc' = "fetch" /\ UNCHANGED outcome
                      ELSE /\ pc' = "done"
                           /\ \E lvl \in TextLevels :
                                outcome' = IF CanPrint(stdout, lvl)
                                           THEN "fetch-failed" ELSE "raised:print"
                   /\ UNCHANGED <<current, armed>>
              ELSE /\ pc' = "check_empty"
                   /\ current' = res.links
                   /\ armed' = IF res.links # {} THEN armed \cap res.links ELSE armed
                   /\ UNCHANGED outcome
    /\ UNCHANGED <<file, runs, keys, stdout, resp, old, new, msg, push,
                   warned, saved, fileAtStart>>

\* Variant of MainFetch that takes a failed fetch for a page without links.
MainFetchAsEmpty ==
    /\ pc = "fetch"
    /\ \E r \in Responses :
         LET res == find_pdf_links(r) IN
           /\ trace' = Append(trace, "find_pdf_links")
           /\ fetched' = IF res.raised THEN res.error ELSE "ok"
           /\ pc' = "check_empty"
           /\ current' = res.links
           /\ armed' = IF res.links # {} THEN armed \cap res.links ELSE armed
           /\ UNCHANGED outcome
    /\ UNCHANGED <<file, runs, keys, stdout, resp, old, new, msg, push,
                   warned, saved, fileAtStart>>

\* main: try: current = find_pdf_links(WEBSITE_URL)
\*       except Exception as e: print("Error fetching/parsing page:", e); return
\* lvl is the level of the exception's text; the print is in the handler.
MainFetch ==
    /\ pc = "fetch"
    /\ \E r \in Responses :
         LET res == find_pdf_links(r) IN
           /\ trace' = Append(trace, "find_pdf_links")
           /\ fetched' = IF res.raised THEN res.error ELSE "ok"
           /\ IF res.raised
              THEN /\ pc' = "done"
                   /\ \E lvl \in TextLevels :
                        outcome' = IF CanPrint(stdout, lvl)
                                   THEN "fetch-failed" ELSE "raised:print"
                   /\ UNCHANGED <<current, armed>>
              ELSE /\ pc' = "check_empty"
                   /\ current' = res.links
                   /\ armed' = IF res.links # {} THEN armed \cap res.links ELSE armed
                   /\ UNCHANGED outcome
    /\ UNCHANGED <<file, runs, keys, stdout, resp, old, new, msg, push,
                   warned, saved, fileAtStart>>

\* main: if not current: print("No PDF links found on the page."); return
MainCheckEmpty ==
    /\ pc = "check_empty"
    /\ IF is_empty(current)
       THEN /\ pc' = "done"
            /\ outcome' = IF CanPrint(stdout, 1)
                          THEN "no-links-found" ELSE "raised:print"
       ELSE pc' = "load" /\ UNCHANGED outcome
    /\ UNCHANGED <<file, runs, keys, stdout, resp, current, old, new, msg,
                   push, warned, trace, saved, fileAtStart, fetched,
                   armed>>

\* main: old = load_old_links()
MainLoad ==
    /\ pc = "load"
    /\ \E lvl \in TextLevels :
         LET res == load_old_links(file, stdout, lvl) IN
           /\ warned' = res.warned
           /\ IF res.raised
              THEN pc' = "done" /\ outcome' = "raised:load_old_links" /\ UNCHANGED old
              ELSE pc' = "diff" /\ old' = res.links /\ UNCHANGED outcome
    /\ trace' = Append(trace, "load_old_links")
    /\ UNCHANGED <<file, runs, keys, stdout, resp, current, new, msg, push,
                   saved, fileAtStart, fetched, armed>>

\* main: new = current - old; if new: ... else: print("No new PDFs.")
MainDiff ==
    /\ pc = "diff"
    /\ new' = new_links(current, old)
    /\ IF new' # {}
       THEN pc' = "notify" /\ UNCHANGED outcome
       ELSE /\ pc' = "done"
            /\ outcome' = IF CanPrint(stdout, 1)
                          THEN "no-new-links" ELSE "raised:print"
    /\ UNCHANGED <<file, runs, keys, stdout, resp, current, old, msg, push,
                   warned, trace, saved, fileAtStart, fetched,
                   armed>>

\* main: msg = "Neue PDFs entdeckt:\n" + ...; send_push(msg), up to the
\* return of requests.post (no POST is made when a key is missing).
MainNotify ==
    /\ pc = "notify"
    /\ msg' = build_msg(new)
    /\ \E user \in CredValues, token \in CredValues, post \in PostResults :
         /\ keys' = (Truthy(user) /\ Truthy(token))
         /\ resp' = IF keys' THEN post ELSE "none"
         /\ push' = [status |-> "none",
                     posts |-> send_push(user, token, post, stdout, 1).posts]
    /\ pc' = "notify_print"
    /\ trace' = Append(trace, "send_push")
    /\ armed' = armed \cup (SeqToSet(msg') \ {Header})
    /\ UNCHANGED <<file, runs, stdout, current, old, new, warned, outcome,
                   saved, fileAtStart, fetched>>

\* send_push: the print that follows (line 67, 81, 83 or 85) and the return.
SendPushPrint ==
    /\ pc = "notify_print"
    /\ \E lvl \in TextLevels :
         LET key == IF keys THEN "set" ELSE "none"
             res == send_push(key, key, resp, stdout, lvl) IN
           /\ push' = [status |-> res.status, posts |-> res.posts]
           /\ IF res.raised
              THEN pc' = "done" /\ outcome' = "raised:send_push"
              ELSE pc' = "save_open" /\ UNCHANGED outcome
    /\ resp' = "none"
    /\ UNCHANGED <<file, runs, keys, stdout, current, old, new, msg, warned,
                   trace, saved, fileAtStart, fetched, armed>>

\* main: save_links(current), up to open(STATE_PATH, "w")
SaveOpen ==
    /\ pc = "save_open"
    /\ trace' = Append(trace, "save_links")
    /\ \E io \in OpenResults :
         LET res == save_open(file, io) IN
           /\ file' = res.file
           /\ IF res.raised
              THEN pc' = "done" /\ outcome' = "raised:save_links"
              ELSE pc' = "save_dump" /\ UNCHANGED outcome
    /\ UNCHANGED <<runs, keys, stdout, resp, current, old, new, msg, push,
                   warned, saved, fileAtStart, fetched, armed>>

\* save_links, inside json.dump: the file object hands a full buffer to the
\* operating system, so the start of the array is on disk and the rest is not.
SaveFlush ==
    /\ pc = "save_dump"
    /\ file = EmptyFile
    /\ file' = PartialFile
    /\ UNCHANGED <<pc, runs, keys, stdout, resp, current, old, new, msg,
                   push, warned, outcome, trace, saved, fileAtStart, fetched, armed>>

\* Variant of SaveDump that appends to the prior state instead of replacing it.
SaveDumpMerge ==
    /\ pc = "save_dump"
    /\ \E io \in WriteResults :
         LET res == save_dump(current \cup old, file, io) IN
           /\ file' = res.file
           /\ saved' = ~res.raised
           /\ IF res.raised
              THEN pc' = "done" /\ outcome' = "raised:save_links"
              ELSE pc' = "report" /\ UNCHANGED outcome
    /\ UNCHANGED <<runs, keys, stdout, resp, current, old, new, msg, push,
                   warned, trace, fileAtStart, fetched, armed>>

\* save_links: the rest of json.dump(sorted(links), f) and the close
SaveDump ==
    /\ pc = "save_dump"
    /\ \E io \in WriteResults :
         LET res == save_dump(current, file, io) IN
           /\ file' = res.file
           /\ saved' = ~res.raised
           /\ IF res.raised
              THEN pc' = "done" /\ outcome' = "raised:save_links"
              ELSE pc' = "report" /\ UNCHANGED outcome
    /\ UNCHANGED <<runs, keys, stdout, resp, current, old, new, msg, push,
                   warned, trace, fileAtStart, fetched, armed>>

\* main: print("New PDFs detected:", *sorted(new), sep="\n- "); lvl is the
\* level of the new URLs.
MainReport ==
    /\ pc = "report"
    /\ pc' = "done"
    /\ \E lvl \in TextLevels :
         outcome' = IF CanPrint(stdout, lvl)
                    THEN "new-links-notified" ELSE "raised:print"
    /\ UNCHANGED <<file, runs, keys, stdout, resp, current, old, new, msg,
                   push, warned, trace, saved, fileAtStart, fetched,
                   armed>>

\* The process is terminated from outside in the middle of a run.
Kill ==
    /\ pc \notin {"idle", "done"}
    /\ pc' = "done"
    /\ outcome' = "killed"
    /\ UNCHANGED <<file, runs, keys, stdout, resp, current, old, new, msg,
                   push, warned, trace, saved, fileAtStart, fetched,
                   armed>>

RunStep ==
    \/ MainFetch
    \/ MainCheckEmpty
    \/ MainLoad
    \/ MainDiff
    \/ MainNotify
    \/ SendPushPrint
    \/ SaveOpen
    \/ SaveFlush
    \/ SaveDump
    \/ MainReport

Next ==
    \/ StartRun
    \/ MainFetch
    \/ MainCheckEmpty
    \/ MainLoad
    \/ MainDiff
    \/ MainNotify
    \/ SendPushPrint
    \/ SaveOpen
    \/ SaveFlush
    \/ SaveDump
    \/ MainReport

NextKill ==
    \/ StartRun
    \/ MainFetch
    \/ MainCheckEmpty
    \/ MainLoad
    \/ MainDiff
    \/ MainNotify
    \/ SendPushPrint
    \/ SaveOpen
    \/ SaveFlush
    \/ SaveDump
    \/ MainReport
    \/ Kill

\* Runs that are left to complete.
Spec == Init /\ [][Next]_vars

\* Runs that may be killed at any step.
SpecKill == Init /\ [][NextKill]_vars

\* A started run keeps executing: main() is straight-line code whose blocking
\* calls carry timeouts.
LiveSpec == Init /\ [][Next]_vars /\ WF_vars(RunStep)

\* ---------------------------------------------------------------- properties
Count(tr, f) == Cardinality({i \in 1..Len(tr) : tr[i] = f})

Before(tr, f, g) ==
    \A j \in 1..Len(tr) : tr[j] = g => \E i \in 1..(j - 1) : tr[i] = f

Ascending(s) == \A i, j \in 1..Len(s) : i < j => s[i] < s[j]

Body(m) == [i \in 1..(Len(m) - 1) |-> m[i + 1]]

Finished == pc = "done"

CredsPresent == keys

\* What load_old_links returns from a file when its warning can be printed.
Loaded(f) == load_old_links(f, "utf-8", 1).links

\* C1: in a finished run whose fetch succeeded, whose load returned and
\* whose current - old is non-empty, send_push was called exactly once, its
\* message is the header followed by exactly the links of current - old in
\* ascending order, one per line, and no call of save_links came before it.
C1_NotifyOnceSortedBeforeSave ==
    /\ Before(trace, "send_push", "save_links")
    /\ Count(trace, "save_links") <= 1
    /\ (Finished /\ fetched = "ok" /\ outcome # "raised:load_old_links"
          /\ (current \ old) # {}) =>
         /\ Count(trace, "send_push") = 1
         /\ Len(msg) = Cardinality(current \ old) + 1
         /\ msg[1] = Header
         /\ SeqToSet(Body(msg)) = current \ old
         /\ SeqToSet(Body(msg)) \cap old = {}
         /\ Ascending(Body(msg))

C1_Witness ==
    /\ Finished
    /\ fetched = "ok"
    /\ old # {}
    /\ old \subseteq current
    /\ Cardinality(current \ old) >= 2
    /\ Count(trace, "send_push") = 1
    /\ saved

\* C2: whenever save_links has returned in a run, the state file is a JSON
\* array holding exactly the link set this run fetched (the most recent
\* fetch), in ascending order without duplicates: neither the delta nor the
\* union with the prior state.
C2_SaveIsFullOverwrite ==
    saved =>
        /\ fetched = "ok"
        /\ file.kind = "list"
        /\ SeqToSet(file.data) = current
        /\ Len(file.data) = Cardinality(current)
        /\ Ascending(file.data)

C2_Witness ==
    /\ Finished
    /\ runs >= 2
    /\ saved
    /\ fileAtStart.kind = "list"
    /\ (old \ current) # {}
    /\ SeqToSet(file.data) = current

\* C3: in a finished run whose fetched set is non-empty and whose
\* current - old is empty, neither send_push nor save_links was called, no
\* POST was issued and the state file is what it was when the run started.
C3_NoNewLinksNoEffects ==
    (Finished /\ fetched = "ok" /\ current # {} /\ (current \ old) = {}) =>
        /\ Count(trace, "send_push") = 0
        /\ Count(trace, "save_links") = 0
        /\ push = NoPush
        /\ file = fileAtStart
        /\ outcome \in {"no-new-links", "raised:print"}

C3_Witness ==
    /\ Finished
    /\ fetched = "ok"
    /\ current # {}
    /\ current \subseteq old
    /\ current # old
    /\ file = fileAtStart
    /\ outcome = "no-new-links"

\* C4: once find_pdf_links has failed (connection error, HTTP error status,
\* or an href that cannot be resolved) the run is over: nothing but find_pdf_links was called, no link
\* set was taken from the failure, no POST was issued and the state file is
\* what it was when the run started.
C4_FetchFailureLeavesState ==
    (fetched \in {"conn_error", "http_error", "url_error"}) =>
        /\ Finished
        /\ outcome \in {"fetch-failed", "raised:print"}
        /\ trace = <<"find_pdf_links">>
        /\ push = NoPush
        /\ file = fileAtStart

C4_Witness ==
    /\ Finished
    /\ fetched = "http_error"
    /\ outcome = "fetch-failed"
    /\ fileAtStart.kind = "list"
    /\ fileAtStart.data # <<>>
    /\ file = fileAtStart

\* C5: when find_pdf_links returned an empty link set, the run calls none of
\* load_old_links, send_push and save_links, and the state file stays what
\* it was when the run started.
C5_EmptyPageLeavesState ==
    (fetched = "ok" /\ current = {}) =>
        /\ pc \in {"check_empty", "done"}
        /\ trace = <<"find_pdf_links">>
        /\ push = NoPush
        /\ file = fileAtStart
        /\ Finished => outcome \in {"no-links-found", "raised:print"}

C5_Witness ==
    /\ Finished
    /\ fetched = "ok"
    /\ current = {}
    /\ outcome = "no-links-found"
    /\ fileAtStart.kind = "list"
    /\ fileAtStart.data # <<>>
    /\ file = fileAtStart

\* C6: once send_push has been called it has not raised to main; with a
\* credential missing it issued no POST; and whatever became of the
\* notification, the finished run has gone on to call save_links.
C6_PushNeverAbortsSave ==
    (Count(trace, "send_push") > 0) =>
        /\ outcome # "raised:send_push"
        /\ ~CredsPresent => push.posts = 0
        /\ Finished => Count(trace, "save_links") = 1

\* C7: after a run was killed, what load_old_links returns from the state
\* file contains every link it returned from the pre-run file, or is the
\* current set of the killed run.
C7_KilledRunNoWorse ==
    (Finished /\ outcome = "killed") =>
        \/ Loaded(fileAtStart) \subseteq Loaded(file)
        \/ (current # {} /\ Loaded(file) = current)

\* C8: load_old_links never ends the run.  When the state file was missing
\* it returned the empty set without a warning; when something unparseable
\* was at its path it printed the warning and returned the empty set.  In
\* both cases every current link counts as new and the run goes on to
\* send_push.
C8_LoadDegradesToEmpty ==
    (Count(trace, "load_old_links") > 0) =>
        /\ outcome # "raised:load_old_links"
        /\ fileAtStart.kind \in {"absent", "no_parent"} => (old = {} /\ ~warned)
        /\ fileAtStart.kind \in {"empty", "malformed", "directory"}
              => (old = {} /\ warned)
        /\ (fileAtStart.kind \in {"absent", "no_parent", "empty", "malformed",
                                  "directory"}
              /\ pc \notin {"load", "diff"}) =>
                 /\ new = current
                 /\ pc # "notify" => Count(trace, "send_push") = 1

\* C9: a link listed in an earlier notification message, and present in
\* every non-empty link set fetched since, is never listed in the message of
\* a later send_push call.
C9_NotifiedLinksNotRepeated ==
    [][(pc = "notify" /\ pc' # "notify")
         => (SeqToSet(msg') \ {Header}) \cap armed = {}]_vars

\* C10 as stated: a finished run ended in one of the three outcomes
\* fetch-failed, no-new-links, new-links-notified.
C10_ThreeOutcomes ==
    Finished => outcome \in {"fetch-failed", "no-new-links", "new-links-notified"}

\* C10: every started run finishes; it calls each of find_pdf_links,
\* load_old_links, send_push and save_links at most once, in that order,
\* issues at most one POST, and ends either by returning in one of the four
\* outcomes fetch-failed, no-links-found, no-new-links, new-links-notified,
\* or by an exception that main does not catch: out of one of its prints,
\* out of load_old_links, out of send_push or out of save_links.
C10_TerminatesOneOutcome ==
    /\ [](/\ \A f \in {"find_pdf_links", "load_old_links",
                       "send_push", "save_links"} : Count(trace, f) <= 1
          /\ Before(trace, "find_pdf_links", "load_old_links")
          /\ Before(trace, "load_old_links", "send_push")
          /\ Before(trace, "send_push", "save_links")
          /\ push.posts <= 1
          /\ Finished <=> outcome # "none"
          /\ outcome \in {"none", "fetch-failed", "no-links-found",
                          "no-new-links", "new-links-notified"} \cup Uncaught
          /\ outcome = "raised:load_old_links" =>
               (trace[Len(trace)] = "load_old_links" /\ file = fileAtStart)
          /\ outcome = "raised:send_push" =>
               (trace[Len(trace)] = "send_push" /\ file = fileAtStart)
          /\ outcome = "raised:save_links" =>
               (trace[Len(trace)] = "save_links" /\ ~saved)
          /\ outcome = "new-links-notified" => saved
          /\ outcome \in {"fetch-failed", "no-links-found", "no-new-links"} =>
               (file = fileAtStart /\ push = NoPush))
    /\ (pc \notin {"idle", "done"}) ~> Finished

C10_Witness ==
    /\ Finished
    /\ outcome = "no-links-found"
    /\ trace = <<"find_pdf_links">>

====
